---- MODULE Spec2Model ----
(***************************************************************************)
(* camhub-agent (main.go): the device/publisher reconciliation core.       *)
(*                                                                         *)
(* The Agent's three maps (cameras, publishers, state) are only touched    *)
(* with a.mu held, so every critical section of the source is one action   *)
(* here.  What happens outside the lock is modelled as separate steps: an  *)
(* encoder subprocess terminating (cmd.Wait returning), the exit handler   *)
(* goroutine's two critical sections around time.Sleep, and the agent      *)
(* process itself being restarted.                                         *)
(***************************************************************************)
EXTENDS Integers, Sequences, FiniteSets, TLC

VARIABLES cameras, publishers, state, file, procs, phase, saved, last, ensured,
          naming, list

vars == <<cameras, publishers, state, file, procs, phase, saved, last, ensured,
          naming, list>>

(* ------------------------------ bounds -------------------------------- *)

\* number of device nodes the discovery provider can ever report
MaxNodes == 2

\* number of characters of a device name the discovery provider reports
MaxNameLen == 2

\* number of table values a List request in flight has seen beyond which no
\* further toggle or cycle runs beside it
MaxListSeen == 2

\* number of encoder subprocesses (with their exit handlers) that can exist
\* at once; a spawn beyond it fails like any other failed cmd.Start
MaxProcs == 2

(* --------------------------- identities ------------------------------- *)

Hostname == "cam-1"

RtspBase == "rtsp"

Nodes == 1..MaxNodes

ProcIds == 1..MaxProcs

NoProc == 0

NoUID == <<>>

NoURL == <<>>

DeviceUID(node) == <<Hostname, node>>

UIDs == {DeviceUID(n) : n \in Nodes}

StreamPath(name, idx) == <<Hostname, name, idx>>

RtspURL(streamPath) == <<RtspBase, streamPath>>

Min(S) == CHOOSE x \in S : \A y \in S : x <= y

\* sort.Slice(devices, by Node): the discovered nodes in ascending order
RECURSIVE SortByNode(_)
SortByNode(S) ==
    IF S = {} THEN <<>> ELSE <<Min(S)>> \o SortByNode(S \ {Min(S)})

(* ------------------- names and paths, as characters ------------------- *)

\* The text of a name, a deviceUID or a streamPath is a sequence of
\* one-character strings.
UpperCase == <<"A", "B", "C", "D", "E", "F", "G", "H", "I", "J", "K", "L", "M", "N", "O", "P", "Q", "R", "S", "T", "U", "V", "W", "X", "Y", "Z">>

LowerCase == <<"a", "b", "c", "d", "e", "f", "g", "h", "i", "j", "k", "l", "m", "n", "o", "p", "q", "r", "s", "t", "u", "v", "w", "x", "y", "z">>

Digits == <<"0", "1", "2", "3", "4", "5", "6", "7", "8", "9">>

\* %d of a non-negative int
RECURSIVE Itoa(_)
Itoa(n) == IF n < 10 THEN <<Digits[n + 1]>>
           ELSE Itoa(n \div 10) \o <<Digits[(n % 10) + 1]>>

\* the characters of Hostname
HostnameChars == <<"c", "a", "m", "-", "1">>

NameChars == {"A", "z", "_"}

\* DeviceInfo.Name
Names == UNION {[1..n -> NameChars] : n \in 0..MaxNameLen}

\* DeviceInfo.Node of the n-th video device; the nodes sort as their numbers
NodePath(n) == <<"/", "d", "e", "v", "/", "v", "i", "d", "e", "o">> \o Itoa(n - 1)

\* what discoverDevices can return: the devices in any order, a node once
Scans ==
    {devices \in UNION {[1..k -> [Name : Names, Node : Nodes]] : k \in 0..MaxNodes} :
        \A i, j \in 1..Len(devices) : i # j => devices[i].Node # devices[j].Node}

\* strings.ToLower
ToLower(value) ==
    [i \in 1..Len(value) |->
        IF \E k \in 1..26 : UpperCase[k] = value[i]
        THEN LowerCase[CHOOSE k \in 1..26 : UpperCase[k] = value[i]]
        ELSE value[i]]

\* the characters the class [^a-z0-9] leaves out
SlugChars == {LowerCase[k] : k \in 1..26} \cup {Digits[k] : k \in 1..10}

RECURSIVE SkipRun(_)
SkipRun(value) ==
    IF value # <<>> /\ Head(value) \notin SlugChars THEN SkipRun(Tail(value))
    ELSE value

\* regexp.MustCompile(`[^a-z0-9]+`).ReplaceAllString(value, "-")
RECURSIVE ReplaceRuns(_)
ReplaceRuns(value) ==
    IF value = <<>> THEN <<>>
    ELSE IF Head(value) \in SlugChars
    THEN <<Head(value)>> \o ReplaceRuns(Tail(value))
    ELSE <<"-">> \o ReplaceRuns(SkipRun(value))

RECURSIVE TrimLeft(_, _)
TrimLeft(value, c) ==
    IF value # <<>> /\ Head(value) = c THEN TrimLeft(Tail(value), c) ELSE value

RECURSIVE TrimRight(_, _)
TrimRight(value, c) ==
    IF value # <<>> /\ value[Len(value)] = c
    THEN TrimRight(SubSeq(value, 1, Len(value) - 1), c) ELSE value

\* strings.Trim(value, c)
Trim(value, c) == TrimRight(TrimLeft(value, c), c)

slugifyKeepCase(value) == Trim(ReplaceRuns(value), "-")

slugify(value) == Trim(ReplaceRuns(ToLower(value)), "-")

\* sort.Slice(devices, by Node), on the DeviceInfo records
RECURSIVE SortDevices(_)
SortDevices(devices) ==
    IF devices = <<>> THEN <<>>
    ELSE LET least == CHOOSE i \in 1..Len(devices) :
                          \A j \in 1..Len(devices) : devices[i].Node <= devices[j].Node
         IN  <<devices[least]>>
             \o SortDevices([k \in 1..(Len(devices) - 1) |->
                                IF k < least THEN devices[k] ELSE devices[k + 1]])

\* the name, streamPath and deviceUID the loop of refreshCameras gives the
\* device at position idx of the sorted scan
NameDevice(device, idx) ==
    LET name == IF device.Name = <<>>
                THEN <<"C", "a", "m", "e", "r", "a", " ">> \o Itoa(idx + 1)
                ELSE device.Name
    IN  [Name       |-> name,
         Node       |-> device.Node,
         StreamPath |-> slugify(HostnameChars) \o <<"-">> \o slugify(name)
                            \o <<"-">> \o Itoa(idx),
         DeviceUID  |-> HostnameChars \o <<":">> \o NodePath(device.Node)]

NameDevices(devices) ==
    LET sorted == SortDevices(devices)
    IN  [i \in 1..Len(sorted) |-> NameDevice(sorted[i], i - 1)]

NoNaming == [devices |-> <<>>, cameras |-> <<>>, done |-> FALSE]

\* the naming part of a reconciliation cycle, for any scan; its result
\* depends on the scan alone
NameScan(devices) ==
    /\ ~naming.done
    /\ naming' = [devices |-> devices, cameras |-> NameDevices(devices), done |-> TRUE]
    /\ UNCHANGED <<cameras, publishers, state, file, procs, phase, saved, last,
                   ensured, list>>

(* ---------------------------- State Store ----------------------------- *)

EmptyMap == [u \in {} |-> TRUE]

\* a Go map[string]bool value: nil, or a mapping
NilState == [nil |-> TRUE, m |-> EmptyMap]

MakeState(m) == [nil |-> FALSE, m |-> m]

\* what the state file can hold before the agent first writes it
FileContents ==
    {[kind |-> k, m |-> EmptyMap] : k \in {"absent", "invalid", "null"}}

\* os.ReadFile error (kind "absent") and json.Unmarshal error (kind "invalid":
\* bad syntax, or a JSON value that is not an object of booleans) give
\* map[string]bool{}; the JSON value null unmarshals without error and leaves
\* the map nil.
loadState(f) ==
    CASE f.kind = "valid" -> MakeState(f.m)
      [] f.kind = "null"  -> NilState
      [] OTHER            -> MakeState(EmptyMap)

SaveOutcomes == {"ok", "failKeep", "failTrunc"}

saveStateSkipped(f, st, outcome) == f

\* json.MarshalIndent of a nil map is "null".  MkdirAll or open failing leaves
\* the file as it was; os.WriteFile failing after O_TRUNC leaves a truncated
\* file, which is not valid JSON.
saveState(f, st, outcome) ==
    CASE outcome = "ok" ->
             IF st.nil THEN [kind |-> "null", m |-> EmptyMap]
                       ELSE [kind |-> "valid", m |-> st.m]
      [] outcome = "failKeep" -> f
      [] OTHER -> [kind |-> "invalid", m |-> EmptyMap]

SavedAs(outcome) == IF outcome = "ok" THEN "ok" ELSE "failed"

(* ------------------------- Publisher Supervisor ----------------------- *)

FreeProc == [uid |-> NoUID, url |-> NoURL, alive |-> FALSE,
             signalled |-> FALSE, pc |-> "free"]

FreeSlots(prcs) == {p \in ProcIds : prcs[p].pc = "free"}

\* cmd.Start succeeded: the subprocess runs and its exit handler goroutine
\* is blocked in cmd.Wait
StartedProc(uid, url) == [uid |-> uid, url |-> url, alive |-> TRUE,
                          signalled |-> FALSE, pc |-> "wait"]

\* cmd.Start succeeds and the Publisher is not put into a.publishers
ensurePublisherUnregistered(pubs, prcs, uid, camera, ok) ==
    IF pubs[uid] # NoProc \/ ~ok \/ {p \in ProcIds : prcs[p].pc = "free"} = {}
    THEN [publishers |-> pubs, procs |-> prcs, camera |-> camera,
          failed |-> pubs[uid] = NoProc]
    ELSE LET p == CHOOSE q \in ProcIds : prcs[q].pc = "free" IN
         [publishers |-> pubs,
          procs      |-> [prcs EXCEPT ![p] = [uid |-> uid, url |-> camera.RtspURL,
                                              alive |-> TRUE, signalled |-> FALSE,
                                              pc |-> "wait"]],
          camera     |-> [camera EXCEPT !.Publishing = TRUE],
          failed     |-> FALSE]

HandlerHoldsMuThroughDelay(pc) == pc \in {"bookkeeping", "sleep", "restart"}

\* the exit handler goroutine holds a.mu between Lock and Unlock: in its
\* bookkeeping section (lines 252-256) and in its restart section (lines
\* 264-269), not while blocked in cmd.Wait or in time.Sleep
HandlerHoldsMu(pc) == pc \in {"bookkeeping", "restart"}

\* a.mu.Lock() returns: no exit handler goroutine holds the mutex (every
\* other holder is one step, which has unlocked when the step is over)
MuFree(prcs) == \A p \in ProcIds : ~HandlerHoldsMu(prcs[p].pc)

ensurePublisherLocked(pubs, prcs, uid, camera, ok) ==
    IF pubs[uid] # NoProc
    THEN [publishers |-> pubs, procs |-> prcs, camera |-> camera, failed |-> FALSE]
    ELSE IF ~ok \/ FreeSlots(prcs) = {}
    THEN [publishers |-> pubs, procs |-> prcs, camera |-> camera, failed |-> TRUE]
    ELSE LET p == Min(FreeSlots(prcs)) IN
         [publishers |-> [pubs EXCEPT ![uid] = p],
          procs      |-> [prcs EXCEPT ![p] = StartedProc(uid, camera.RtspURL)],
          camera     |-> [camera EXCEPT !.Publishing = TRUE],
          failed     |-> FALSE]

stopPublisherKeepsRegistration(pubs, prcs, cams, uid) ==
    [publishers |-> pubs, procs |-> prcs, cameras |-> cams]

\* cams is a.cameras, the table installed when the call is made
stopPublisherLocked(pubs, prcs, cams, uid) ==
    IF pubs[uid] = NoProc
    THEN [publishers |-> pubs, procs |-> prcs, cameras |-> cams]
    ELSE [publishers |-> [pubs EXCEPT ![uid] = NoProc],
          procs      |-> [prcs EXCEPT ![pubs[uid]].signalled = TRUE],
          cameras    |-> IF uid \in DOMAIN cams
                         THEN [cams EXCEPT ![uid].Publishing = FALSE]
                         ELSE cams]

(* ------------------------- List (handleCameras) ---------------------- *)

\* A List request in flight.  handleCameras copies the *Camera pointers of
\* the table with a.mu held and reads the fields of the Cameras they point
\* to afterwards, when it encodes the response.  todo: the Cameras not yet
\* encoded; aliased: they are still the objects of a.cameras; frozen: their
\* fields once a reconciliation cycle has replaced the table; resp: the
\* fields encoded so far; seen (history): every value the table's fields
\* had since the request took the lock.
NoList == [pc |-> "idle", todo |-> {}, aliased |-> FALSE, frozen |-> EmptyMap,
           resp |-> EmptyMap, seen |-> {}]

Fields(cam) == <<cam.Enabled, cam.Publishing>>

TableFields(cams) == [u \in DOMAIN cams |-> Fields(cams[u])]

\* a.cameras = next: the request's pointers keep the Cameras of the old
\* table, old, as the cycle left them
ListDetached(l, old) ==
    IF l.pc = "encoding" /\ l.aliased
    THEN [l EXCEPT !.aliased = FALSE,
                   !.frozen = [u \in l.todo |-> Fields(old[u])]]
    ELSE l

ListObserved(l, cams) ==
    IF l.pc = "encoding" THEN [l EXCEPT !.seen = @ \cup {TableFields(cams)}] ELSE l

\* the old table as a cycle left it counts as held, too
ListObservedCycle(l, old, next) == ListObserved(ListObserved(l, old), next)

(* ------------------------- Reconciliation Engine ---------------------- *)

ResolveEnabledIgnoringState(m, uid) == TRUE

\* enabled, ok := a.state[deviceUID]; if !ok { enabled = true }
ResolveEnabled(m, uid) == IF uid \in DOMAIN m THEN m[uid] ELSE TRUE

\* One pass over the sorted devices (the for loop of refreshCameras).  acc
\* carries the agent's maps, the table being built (next), the deviceUIDs
\* whose spawn failed and whether the write to a nil map panicked.
RECURSIVE RefreshLoop(_, _, _, _)
RefreshLoop(acc, devices, i, okSet) ==
    IF i > Len(devices) \/ acc.panic THEN acc
    ELSE
    LET device    == devices[i]
        idx       == i - 1
        name      == idx + 1
        deviceUID == DeviceUID(device)
        seen      == deviceUID \in DOMAIN acc.state.m
        enabled   == ResolveEnabled(acc.state.m, deviceUID)
        st1       == IF seen THEN acc.state
                     ELSE [acc.state EXCEPT !.m = (deviceUID :> TRUE) @@ acc.state.m]
        camera    == [Node       |-> device,
                      StreamPath |-> StreamPath(name, idx),
                      RtspURL    |-> RtspURL(StreamPath(name, idx)),
                      Enabled    |-> enabled,
                      Publishing |-> acc.publishers[deviceUID] # NoProc]
        e == ensurePublisherLocked(acc.publishers, acc.procs, deviceUID, camera,
                                   device \in okSet)
        s == stopPublisherLocked(acc.publishers, acc.procs, acc.cameras, deviceUID)
    IN  IF ~seen /\ acc.state.nil
        THEN [acc EXCEPT !.panic = TRUE]
        ELSE IF enabled
        THEN RefreshLoop([acc EXCEPT !.state = st1,
                                     !.publishers = e.publishers,
                                     !.procs = e.procs,
                                     !.next = (deviceUID :> e.camera) @@ acc.next,
                                     !.failed = IF e.failed THEN @ \cup {deviceUID} ELSE @],
                         devices, i + 1, okSet)
        ELSE RefreshLoop([acc EXCEPT !.state = st1,
                                     !.publishers = s.publishers,
                                     !.procs = s.procs,
                                     !.cameras = s.cameras,
                                     !.next = (deviceUID :> camera) @@ acc.next],
                         devices, i + 1, okSet)

VanishedNone(cams, next) == {}

\* for uid := range a.cameras { if next[uid] == nil { ... } }
Vanished(cams, next) == DOMAIN cams \ DOMAIN next

RECURSIVE StopAll(_, _)
StopAll(acc, uids) ==
    IF uids = {} THEN acc
    ELSE LET uid == CHOOSE u \in uids : TRUE
             s   == stopPublisherLocked(acc.publishers, acc.procs, acc.cameras, uid)
         IN  StopAll([acc EXCEPT !.publishers = s.publishers,
                                 !.procs = s.procs,
                                 !.cameras = s.cameras],
                     uids \ {uid})

RefreshResult(devs, okSet) ==
    LET acc0 == [state |-> state, publishers |-> publishers, procs |-> procs,
                 cameras |-> cameras, next |-> EmptyMap, failed |-> {},
                 panic |-> FALSE]
        acc1 == RefreshLoop(acc0, SortByNode(devs), 1, okSet)
    IN  IF acc1.panic THEN acc1 ELSE StopAll(acc1, Vanished(acc1.cameras, acc1.next))

\* the operation that ran last: its name and arguments, its response, the
\* deviceUIDs whose spawn failed in it and those whose Publisher it retired
Record(op, uid, val, resp, failed, retired) ==
    [op |-> op, uid |-> uid, val |-> val, resp |-> resp, failed |-> failed,
     retired |-> retired]

\* ensured[u]: calls of ensurePublisherLocked for u since the last call of
\* stopPublisherLocked for u (history, 2 standing for "twice or more")
Bump(n) == IF n >= 2 THEN 2 ELSE n + 1

EnsuredAfterRefresh(next) ==
    [u \in UIDs |-> IF u \in DOMAIN next
                    THEN IF next[u].Enabled THEN Bump(ensured[u]) ELSE 0
                    ELSE IF u \in DOMAIN cameras THEN 0 ELSE ensured[u]]

Retired(pubs0, pubs1) == {u \in UIDs : pubs0[u] # NoProc /\ pubs1[u] = NoProc}

\* refreshCameras: main's first call (phase "boot") and every discovery tick.
\* A panic (assignment to an entry in a nil map) kills the agent process.
refreshCameras(devs, okSet, outcome) ==
    /\ phase \in {"boot", "run"}
    /\ MuFree(procs)
    /\ UNCHANGED naming
    /\ LET r == RefreshResult(devs, okSet) IN
       IF r.panic
       THEN /\ phase' = "crashed"
            /\ procs' = r.procs
            /\ last' = Record(IF phase = "boot" THEN "boot" ELSE "refresh",
                              NoUID, TRUE, "panic", {}, {})
            /\ UNCHANGED <<cameras, publishers, state, file, saved, ensured, list>>
       ELSE /\ phase' = "run"
            /\ list' = ListObservedCycle(ListDetached(list, r.cameras), r.cameras, r.next)
            /\ cameras' = r.next
            /\ publishers' = r.publishers
            /\ procs' = r.procs
            /\ state' = r.state
            /\ file' = saveState(file, r.state, outcome)
            /\ saved' = SavedAs(outcome)
            /\ ensured' = EnsuredAfterRefresh(r.next)
            /\ last' = Record(IF phase = "boot" THEN "boot" ELSE "refresh",
                              NoUID, TRUE, "done", r.failed,
                              Retired(publishers, r.publishers))

(* ----------------------------- Control API ---------------------------- *)

ToggleStateDropped(st, uid, enabled) == st

\* a.state[payload.DeviceUID] = payload.Enabled
ToggleState(st, uid, enabled) == [st EXCEPT !.m = (uid :> enabled) @@ st.m]

ToggleKnownAlways(cams, uid) == TRUE

\* cam := a.cameras[payload.DeviceUID]; cam == nil is Not-Found
ToggleKnown(cams, uid) == uid \in DOMAIN cams

handleToggle(uid, enabled, ok, outcome) ==
    /\ phase = "run"
    /\ MuFree(procs)
    /\ UNCHANGED naming
    /\ IF ~ToggleKnown(cameras, uid)
       THEN /\ last' = Record("toggle", uid, enabled, "notfound", {}, {})
            /\ UNCHANGED <<cameras, publishers, state, file, procs, phase, saved,
                           ensured, list>>
       ELSE LET cams1 == IF uid \in DOMAIN cameras
                         THEN [cameras EXCEPT ![uid].Enabled = enabled]
                         ELSE cameras
                st1   == ToggleState(state, uid, enabled)
                cam   == IF uid \in DOMAIN cams1 THEN cams1[uid]
                         ELSE [RtspURL |-> NoURL, Publishing |-> FALSE]
                e     == ensurePublisherLocked(publishers, procs, uid, cam, ok)
                s     == stopPublisherLocked(publishers, procs, cams1, uid)
            IN  /\ cameras' = IF enabled
                              THEN IF uid \in DOMAIN cams1
                                   THEN [cams1 EXCEPT ![uid] = e.camera] ELSE cams1
                              ELSE s.cameras
                /\ publishers' = IF enabled THEN e.publishers ELSE s.publishers
                /\ procs' = IF enabled THEN e.procs ELSE s.procs
                /\ state' = st1
                /\ file' = saveState(file, st1, outcome)
                /\ saved' = SavedAs(outcome)
                /\ last' = Record("toggle", uid, enabled, "ok",
                                  IF enabled /\ e.failed THEN {uid} ELSE {},
                                  IF enabled THEN {} ELSE Retired(publishers, s.publishers))
                /\ ensured' = [ensured EXCEPT ![uid] = IF enabled THEN Bump(@) ELSE 0]
                /\ list' = ListObserved(list, cameras')
                /\ UNCHANGED phase

(* ---------------------- subprocess and exit handler ------------------- *)

\* the encoder subprocess terminates, for any reason; cmd.Wait returns
ProcExit(p) ==
    /\ phase = "run"
    /\ procs[p].pc = "wait"
    /\ procs[p].alive
    /\ procs' = [procs EXCEPT ![p].alive = FALSE]
    /\ last' = Record("exit", procs[p].uid, TRUE, "done", {}, {})
    /\ UNCHANGED <<cameras, publishers, state, file, phase, saved, ensured, naming,
                   list>>

\* exit handler, first critical section: delete(a.publishers, uid) and read
\* whether the camera is enabled
ExitBookkeeping(p) ==
    /\ phase = "run"
    /\ procs[p].pc = "wait"
    /\ ~procs[p].alive
    /\ MuFree(procs)
    /\ UNCHANGED naming
    /\ LET uid     == procs[p].uid
           enabled == uid \in DOMAIN cameras /\ cameras[uid].Enabled
       IN  /\ publishers' = [publishers EXCEPT ![uid] = NoProc]
           /\ procs' = [procs EXCEPT ![p] = IF enabled THEN [@ EXCEPT !.pc = "sleep"]
                                            ELSE FreeProc]
           /\ last' = Record("bookkeeping", uid, enabled, "done", {}, {})
    /\ UNCHANGED <<cameras, state, file, phase, saved, ensured, list>>

RestartAllowedIfPresent(cams, uid) == uid \in DOMAIN cams

RestartAllowedNever(cams, uid) == FALSE

\* cam = a.cameras[uid]; if cam != nil && cam.Enabled
RestartAllowed(cams, uid) == uid \in DOMAIN cams /\ cams[uid].Enabled

\* exit handler, second critical section, after time.Sleep(RestartDelay)
ExitRestart(p, ok) ==
    /\ phase = "run"
    /\ procs[p].pc = "sleep"
    /\ MuFree(procs)
    /\ UNCHANGED naming
    /\ LET uid   == procs[p].uid
           prcs1 == [procs EXCEPT ![p] = FreeProc]
           e     == ensurePublisherLocked(publishers, prcs1, uid, cameras[uid], ok)
       IN  IF RestartAllowed(cameras, uid)
           THEN /\ publishers' = e.publishers
                /\ procs' = e.procs
                /\ cameras' = [cameras EXCEPT ![uid] = e.camera]
                /\ last' = Record("restart", uid, TRUE, "ensure",
                                  IF e.failed THEN {uid} ELSE {}, {})
                /\ ensured' = [ensured EXCEPT ![uid] = Bump(@)]
                /\ list' = ListObserved(list, cameras')
           ELSE /\ procs' = prcs1
                /\ last' = Record("restart", uid, FALSE, "skip", {}, {})
                /\ UNCHANGED <<cameras, publishers, ensured, list>>
    /\ UNCHANGED <<state, file, phase, saved>>

(* -------------------------------- List -------------------------------- *)

\* handleCameras, lines 339-344: the pointers of the table, with a.mu held
handleCamerasLock ==
    /\ phase = "run"
    /\ MuFree(procs)
    /\ list.pc = "idle"
    /\ list' = [pc |-> "encoding", todo |-> DOMAIN cameras, aliased |-> TRUE,
                frozen |-> EmptyMap, resp |-> EmptyMap,
                seen |-> {TableFields(cameras)}]
    /\ UNCHANGED <<cameras, publishers, state, file, procs, phase, saved, last,
                   ensured, naming>>

\* writeJSON, line 350, without a.mu: the encoder reads the fields of the
\* next Camera of the sorted list (the default names sort as the nodes do)
handleCamerasEncode ==
    /\ phase = "run"
    /\ list.pc = "encoding"
    /\ list.todo # {}
    /\ LET u   == CHOOSE v \in list.todo : \A w \in list.todo : v[2] <= w[2]
           cam == IF list.aliased THEN Fields(cameras[u]) ELSE list.frozen[u]
       IN  list' = [list EXCEPT !.todo = @ \ {u}, !.resp = (u :> cam) @@ @]
    /\ UNCHANGED <<cameras, publishers, state, file, procs, phase, saved, last,
                   ensured, naming>>

\* the response is written
handleCamerasRespond ==
    /\ phase = "run"
    /\ list.pc = "encoding"
    /\ list.todo = {}
    /\ list' = NoList
    /\ UNCHANGED <<cameras, publishers, state, file, procs, phase, saved, last,
                   ensured, naming>>

(* ------------------------------ the agent ----------------------------- *)

\* the agent process is started again: main() builds a fresh Agent from the
\* state file; the previous instance's goroutines are gone
AgentRestart ==
    /\ phase \in {"run", "crashed"}
    /\ cameras' = EmptyMap
    /\ publishers' = [u \in UIDs |-> NoProc]
    /\ procs' = [p \in ProcIds |-> FreeProc]
    /\ state' = loadState(file)
    /\ phase' = "boot"
    /\ ensured' = [u \in UIDs |-> 0]
    /\ last' = Record("main", NoUID, TRUE, "done", {}, {})
    /\ list' = NoList
    /\ UNCHANGED <<file, saved, naming>>

\* main(), lines 76-82: the Agent as constructed, before the first refresh
Init ==
    /\ file \in FileContents
    /\ cameras = EmptyMap
    /\ publishers = [u \in UIDs |-> NoProc]
    /\ procs = [p \in ProcIds |-> FreeProc]
    /\ state = loadState(file)
    /\ phase = "boot"
    /\ saved = "none"
    /\ ensured = [u \in UIDs |-> 0]
    /\ last = Record("main", NoUID, TRUE, "done", {}, {})
    /\ naming = NoNaming
    /\ list = NoList

\* every operation of the agent; the state file is written without error
Next ==
    \/ \E devs \in SUBSET Nodes : \E okSet \in SUBSET devs :
           refreshCameras(devs, okSet, "ok")
    \/ \E uid \in UIDs : \E enabled \in BOOLEAN : \E ok \in BOOLEAN :
           handleToggle(uid, enabled, ok, "ok")
    \/ \E p \in ProcIds : ProcExit(p)
    \/ \E p \in ProcIds : ExitBookkeeping(p)
    \/ \E p \in ProcIds : \E ok \in BOOLEAN : ExitRestart(p, ok)
    \/ AgentRestart

Spec == Init /\ [][Next]_vars

\* the operations that read or write the State Store, with every outcome of
\* saveState; the encoder subprocesses they start keep running
NextStore ==
    \/ \E devs \in SUBSET Nodes : \E okSet \in SUBSET devs : \E o \in SaveOutcomes :
           refreshCameras(devs, okSet, o)
    \/ \E uid \in UIDs : \E enabled \in BOOLEAN : \E ok \in BOOLEAN :
       \E o \in SaveOutcomes : handleToggle(uid, enabled, ok, o)
    \/ AgentRestart

SpecStore == Init /\ [][NextStore]_vars

\* the naming of every scan the discovery provider can return
NextNaming == \E devices \in Scans : NameScan(devices)

SpecNaming == Init /\ [][NextNaming]_vars

\* List requests running beside toggles and reconciliation cycles, every
\* spawn and save succeeding
ListBudget == Cardinality(list.seen) <= MaxListSeen

NextList ==
    \/ ListBudget /\ \E devs \in SUBSET Nodes : refreshCameras(devs, devs, "ok")
    \/ ListBudget /\ \E uid \in UIDs : \E enabled \in BOOLEAN :
           handleToggle(uid, enabled, TRUE, "ok")
    \/ handleCamerasLock
    \/ handleCamerasEncode
    \/ handleCamerasRespond

SpecList == Init /\ [][NextList]_vars

(* ----------------------------- properties ----------------------------- *)

Registered == {u \in UIDs : publishers[u] # NoProc}

EnabledCameras == {u \in DOMAIN cameras : cameras[u].Enabled}

\* encoder subprocesses of uid that run and were never sent the interrupt
LivePublishers(uid) ==
    {p \in ProcIds : /\ procs[p].pc # "free"
                     /\ procs[p].uid = uid
                     /\ procs[p].alive
                     /\ ~procs[p].signalled}

\* p is started by the step
Spawned(p) == procs'[p].pc = "wait" /\ procs'[p].alive /\ procs[p].pc # "wait"

TypeOK ==
    /\ DOMAIN cameras \subseteq UIDs
    /\ publishers \in [UIDs -> ProcIds \cup {NoProc}]
    /\ state.nil \in BOOLEAN /\ DOMAIN state.m \subseteq UIDs
    /\ phase \in {"boot", "run", "crashed"}
    /\ saved \in {"none", "ok", "failed"}
    /\ \A p \in ProcIds : procs[p].pc \in {"free", "wait", "sleep"}
    /\ \A u \in UIDs : publishers[u] # NoProc =>
           procs[publishers[u]].pc = "wait" /\ procs[publishers[u]].uid = u

\* C1: every deviceUID has at most one encoder subprocess that is running
\* and has not been sent the termination signal, whatever the interleaving
\* of toggles, reconciliation cycles, subprocess exits and delayed restarts.
C1_AtMostOneLivePublisher ==
    \A u \in UIDs : Cardinality(LivePublishers(u)) <= 1

\* C2, as claimed: when a reconciliation cycle has completed, the deviceUIDs
\* with a registered Publisher are exactly the enabled Camera Table entries.
C2_RegisteredEqualsEnabled ==
    (last.op \in {"boot", "refresh"} /\ last.resp = "done")
        => Registered = EnabledCameras

\* C2, amended: when a reconciliation cycle has completed, the deviceUIDs
\* with a registered Publisher are exactly the enabled Camera Table entries
\* whose spawn did not fail in that cycle.
C2_RegisteredEqualsEnabledUnlessSpawnFailed ==
    (last.op \in {"boot", "refresh"} /\ last.resp = "done")
        => /\ last.failed \subseteq EnabledCameras
           /\ Registered = EnabledCameras \ last.failed

C2_Witness ==
    /\ last.op = "refresh" /\ last.resp = "done"
    /\ last.failed # {}
    /\ Registered # {}

\* C3: once ensure has been invoked twice for a deviceUID with no retire in
\* between, that deviceUID does not have more than one live Publisher (the
\* second call found the first call's Publisher and spawned nothing).
C3_EnsureTwiceOnePublisher ==
    \A u \in UIDs : ensured[u] = 2 => Cardinality(LivePublishers(u)) <= 1

\* C4: a reconciliation cycle retires, before it publishes the new table, the
\* registered Publisher of every deviceUID of the previous table that the
\* scan lacks (signalled and unregistered), and no state has a registered
\* Publisher whose deviceUID the Camera Table lacks.
C4_VanishedRetiredInCycle ==
    /\ [][(last'.op = "refresh" /\ last'.resp = "done") =>
            \A u \in DOMAIN cameras \ DOMAIN cameras' :
                /\ publishers'[u] = NoProc
                /\ publishers[u] # NoProc => procs'[publishers[u]].signalled]_vars
    /\ [](Registered \subseteq DOMAIN cameras)

C4_Witness ==
    /\ last.op = "refresh" /\ last.resp = "done"
    /\ \E u \in last.retired :
          /\ u \notin DOMAIN cameras
          /\ u \in DOMAIN state.m /\ state.m[u]
          /\ \E p \in ProcIds : procs[p].uid = u /\ procs[p].alive /\ procs[p].signalled

\* C5: a toggle of a deviceUID that the Camera Table lacks answers Not-Found
\* and leaves the Camera Table, the State Store mapping, the state file, the
\* Publisher registry and every subprocess as they were.
C5_ToggleUnknownChangesNothing ==
    [][(last'.op = "toggle" /\ last'.uid \notin DOMAIN cameras) =>
          /\ last'.resp = "notfound"
          /\ UNCHANGED <<cameras, state, file, publishers, procs>>]_vars

C5_Witness ==
    /\ last.op = "toggle" /\ last.resp = "notfound"
    /\ last.uid \notin DOMAIN cameras
    /\ last.uid \in DOMAIN state.m
    /\ Registered # {}

\* C6: a toggle(uid, v) of a deviceUID in the Camera Table leaves, in the
\* state it produces, the entry's enabled and the State Store value equal to
\* v; with v false no Publisher registered for uid, the one registered before
\* having been signalled; with v true and no failed spawn a Publisher
\* registered for uid.
C6_ToggleApplied ==
    [][(last'.op = "toggle" /\ last'.uid \in DOMAIN cameras) =>
          LET u == last'.uid
              v == last'.val
          IN  /\ last'.resp = "ok"
              /\ u \in DOMAIN cameras' /\ cameras'[u].Enabled = v
              /\ u \in DOMAIN state'.m /\ state'.m[u] = v
              /\ ~v => /\ publishers'[u] = NoProc
                       /\ publishers[u] # NoProc => procs'[publishers[u]].signalled
              /\ (v /\ u \notin last'.failed) =>
                       /\ publishers'[u] # NoProc
                       /\ procs'[publishers'[u]].uid = u
                       /\ procs'[publishers'[u]].pc = "wait"]_vars

C6_Witness ==
    /\ last.op = "toggle" /\ last.resp = "ok" /\ ~last.val
    /\ last.retired = {last.uid}
    /\ ~cameras[last.uid].Enabled /\ ~state.m[last.uid]
    /\ publishers[last.uid] = NoProc

\* C7: when the agent is restarted after a save that succeeded, the State
\* Store it loads is the one it had, and the first reconciliation cycle gives
\* every discovered deviceUID of that State Store its stored enabled value.
C7_EnabledSurvivesRestart ==
    [][/\ (last'.op = "main" /\ saved = "ok") => state' = state
       /\ (last'.op = "boot" /\ last'.resp = "done") =>
              \A u \in DOMAIN cameras' \cap DOMAIN state.m :
                  cameras'[u].Enabled = state.m[u]]_vars

C7_Witness ==
    /\ last.op = "boot" /\ last.resp = "done"
    /\ \E u \in DOMAIN cameras : ~cameras[u].Enabled
    /\ \E u \in DOMAIN cameras : cameras[u].Enabled

\* C8: whatever the state file holds, the first reconciliation cycle
\* completes: it does not crash, and every deviceUID it discovered is seeded
\* in the State Store.
C8_FirstCycleCompletes ==
    last.op = "boot" =>
        /\ last.resp = "done"
        /\ phase = "run"
        /\ DOMAIN cameras \subseteq DOMAIN state.m

\* C9: for every Camera Table entry, publishing is true exactly when a
\* Publisher is registered for its deviceUID.
C9_PublishingIffRegistered ==
    \A u \in DOMAIN cameras : cameras[u].Publishing <=> publishers[u] # NoProc

\* C10: no step starts an encoder subprocess for a deviceUID whose camera is,
\* in the state the step produces, disabled or absent from the Camera Table;
\* in particular the exit handler's restart step spawns nothing then.
C10_NoSpawnUnlessEnabled ==
    [][\A p \in ProcIds : Spawned(p) =>
          /\ procs'[p].uid \in DOMAIN cameras'
          /\ cameras'[procs'[p].uid].Enabled]_vars

C10_Witness ==
    /\ last.op = "restart" /\ last.resp = "skip"
    /\ last.uid \in DOMAIN cameras
    /\ ~cameras[last.uid].Enabled
    /\ publishers[last.uid] = NoProc

(* ------------------------- C11: crash-restart ------------------------- *)

\* The Go scheduler runs every runnable goroutine, time.Sleep returns and
\* sync.Mutex hands the lock to a waiter (starvation mode), so an exit handler
\* that can take its next critical section eventually takes it.
HandlerFairness ==
    \A p \in ProcIds : /\ WF_vars(ExitBookkeeping(p))
                       /\ WF_vars(\E ok \in BOOLEAN : ExitRestart(p, ok))

SpecLive == Init /\ [][Next]_vars /\ HandlerFairness

EnabledInTable(u) == u \in DOMAIN cameras /\ cameras[u].Enabled

\* a subprocess of u has terminated and its exit handler has not yet run
ExitPending(u) ==
    /\ phase = "run"
    /\ EnabledInTable(u)
    /\ \E p \in ProcIds : procs[p].uid = u /\ procs[p].pc = "wait" /\ ~procs[p].alive

RunningRegistered(u) == publishers[u] # NoProc /\ procs[publishers[u]].alive

Sleepers == {p \in ProcIds : procs[p].pc = "sleep"}

\* C11: when a subprocess of an enabled camera terminates, then eventually a
\* running Publisher is registered for its deviceUID, unless the camera is
\* disabled or leaves the table, the restart's spawn fails or the agent
\* stops; and a handler makes its restart attempt once: the attempt ends the
\* handler's delay and only the bookkeeping of a terminated subprocess
\* begins one.
C11_RestartedAfterExit ==
    /\ \A u \in UIDs :
          ExitPending(u) ~> \/ RunningRegistered(u)
                            \/ ~EnabledInTable(u)
                            \/ (last.op = "restart" /\ u \in last.failed)
                            \/ phase # "run"
    /\ [][/\ last'.op = "restart" =>
                 \E p \in Sleepers : Sleepers' = Sleepers \ {p}
          /\ (last'.op # "restart" /\ Sleepers' # Sleepers) =>
                 /\ last'.op \in {"bookkeeping", "main"}
                 /\ last'.op = "bookkeeping" =>
                        \E p \in ProcIds : /\ ~procs[p].alive /\ procs[p].pc = "wait"
                                           /\ Sleepers' = Sleepers \cup {p}]_vars

C11_Witness ==
    /\ last.op = "restart" /\ last.resp = "ensure"
    /\ last.failed = {}
    /\ RunningRegistered(last.uid)
    /\ Cardinality(LivePublishers(last.uid)) = 1

(* ------------------------------ C12, C13 ------------------------------ *)

\* C12: after an operation in which the spawn for a deviceUID failed, no
\* Publisher is registered for it, no exit handler was started for it, and
\* its camera is enabled with publishing false.
C12_SpawnFailureLeavesNotPublishing ==
    \A u \in last.failed :
        /\ publishers[u] = NoProc
        /\ u \in DOMAIN cameras
        /\ cameras[u].Enabled
        /\ ~cameras[u].Publishing

\* C13: every Camera Table entry's enabled is the State Store's value for
\* its deviceUID, and a reconciliation cycle leaves the enabled value of
\* every camera it keeps as the toggles before it set it.
C13_TableNeverTorn ==
    /\ [](\A u \in DOMAIN cameras :
              u \in DOMAIN state.m /\ cameras[u].Enabled = state.m[u])
    /\ [][(last'.op = "refresh" /\ last'.resp = "done") =>
             \A u \in DOMAIN cameras \cap DOMAIN cameras' :
                 cameras'[u].Enabled = cameras[u].Enabled]_vars

C13_Witness ==
    /\ last.op = "refresh" /\ last.resp = "done"
    /\ \E u \in DOMAIN cameras : ~cameras[u].Enabled /\ ~state.m[u]
    /\ \E u \in DOMAIN cameras : cameras[u].Enabled /\ publishers[u] # NoProc

(* ------------------------------ C19, C20 ------------------------------ *)

\* C19: every encoder subprocess that runs and was never sent the
\* termination signal is the Publisher registered under its deviceUID.
C19_NoOrphanedSubprocess ==
    \A p \in ProcIds :
        (procs[p].pc # "free" /\ procs[p].alive /\ ~procs[p].signalled)
            => publishers[procs[p].uid] = p

\* C20: the sink URL of every registered Publisher is the rtspURL the Camera
\* Table records for its deviceUID, and no two registered Publishers have
\* the same sink URL.
C20_SinkIsTableURL ==
    /\ \A u \in Registered :
           u \in DOMAIN cameras /\ procs[publishers[u]].url = cameras[u].RtspURL
    /\ \A u, w \in Registered :
           u # w => procs[publishers[u]].url # procs[publishers[w]].url

(* ------------------------------ C17, C18 ------------------------------ *)

\* C17: in every state in which the most recent save, if there was one, did
\* not fail, the state file read back is the in-memory State Store mapping.
C17_FileEqualsState == saved # "failed" => loadState(file) = state

C17_Witness ==
    /\ saved = "ok"
    /\ last.op = "toggle" /\ last.resp = "ok" /\ ~last.val
    /\ file.kind = "valid"
    /\ last.uid \in DOMAIN file.m /\ ~file.m[last.uid]
    /\ \E u \in DOMAIN file.m : file.m[u]

\* C18: a toggle or reconciliation cycle whose save failed leaves the State
\* Store mapping and the Camera Table agreeing on the value it set (the
\* toggle reporting success) and leaves the state file with the contents it
\* had before the operation.
C18_SaveFailureKeepsFile ==
    [][(saved' = "failed" /\ last'.op \in {"toggle", "refresh", "boot"}
                          /\ last'.resp \in {"ok", "done"}) =>
          /\ file' = file
          /\ \A u \in DOMAIN cameras' :
                 u \in DOMAIN state'.m /\ cameras'[u].Enabled = state'.m[u]
          /\ last'.op = "toggle" =>
                 /\ state'.m[last'.uid] = last'.val
                 /\ (publishers'[last'.uid] # NoProc) =>  last'.val]_vars

(* -------------------------------- C16 --------------------------------- *)

Waiting == {p \in ProcIds : procs[p].pc = "wait"}

Gap(u) == EnabledInTable(u) /\ publishers[u] = NoProc

\* C15 as claimed: no Camera Table entry is enabled without a registered
\* Publisher.
C15_NoEnabledWithoutPublisher == \A u \in UIDs : ~Gap(u)

\* C15, amended: an enabled Camera Table entry is without a registered
\* Publisher after a step only if its spawn failed in that step, or the step
\* is the exit bookkeeping of its subprocess, which puts its handler into the
\* restart delay, or it was so before and the step made no spawn attempt for
\* it.
C15_GapOnlyByFailureOrExit ==
    [][\A u \in UIDs :
          Gap(u)' =>
             \/ u \in last'.failed
             \/ /\ last'.op = "bookkeeping" /\ last'.uid = u
                /\ \E p \in Sleepers' \ Sleepers : procs'[p].uid = u
             \/ /\ Gap(u)
                /\ \/ last'.op = "exit"
                   \/ last'.op \in {"toggle", "restart", "bookkeeping"} /\ last'.uid # u
      ]_vars

C15_Witness ==
    \E u \in UIDs :
        /\ Gap(u)
        /\ last.op = "toggle" /\ last.resp = "ok" /\ last.uid # u
        /\ \E p \in Sleepers : procs[p].uid = u

(* -------------------------------- C14 --------------------------------- *)

IsSlugChar(c) == c \in SlugChars

\* s is made of the characters a-z, 0-9 and "-", with no "-" at either end
\* and no two "-" in a row, and has the letters and digits of value, put in
\* lower case, in their order
IsSlugOf(s, value) ==
    /\ \A i \in 1..Len(s) : s[i] \in SlugChars \cup {"-"}
    /\ s # <<>> => s[1] # "-" /\ s[Len(s)] # "-"
    /\ \A i \in 1..(Len(s) - 1) : ~(s[i] = "-" /\ s[i + 1] = "-")
    /\ SelectSeq(s, IsSlugChar) = SelectSeq(ToLower(value), IsSlugChar)

ScenarioScan == <<[Name |-> <<>>, Node |-> 1]>>

\* C14: the cameras of a scan are its devices in node order; the camera at
\* 0-based position idx has the device's name, or "Camera <idx+1>" when that
\* is empty, deviceUID "<hostname>:<node>" and streamPath
\* "<slug(hostname)>-<slug(name)>-<idx>"; the scan of the one unnamed device
\* /dev/video0 on host cam-1 gives name "Camera 1" and streamPath
\* "cam-1-camera-1-0".
C14_NamingOfScan ==
    naming.done =>
       LET d == naming.devices
           r == naming.cameras
       IN  /\ Len(r) = Len(d)
           /\ \A i \in 1..Len(r) :
                 /\ \E k \in 1..Len(d) : d[k].Node = r[i].Node
                 /\ Cardinality({k \in 1..Len(d) : d[k].Node < r[i].Node}) = i - 1
                 /\ LET device == d[CHOOSE k \in 1..Len(d) : d[k].Node = r[i].Node]
                        slug   == SubSeq(r[i].StreamPath, Len(HostnameChars) + 2,
                                         Len(r[i].StreamPath) - 2)
                    IN  /\ device.Name # <<>> => r[i].Name = device.Name
                        /\ device.Name = <<>> =>
                              r[i].Name = <<"C", "a", "m", "e", "r", "a", " ">> \o Itoa(i)
                        /\ r[i].DeviceUID = HostnameChars \o <<":">> \o NodePath(r[i].Node)
                        /\ r[i].StreamPath =
                              HostnameChars \o <<"-">> \o slug \o <<"-">> \o Itoa(i - 1)
                        /\ IsSlugOf(slug, r[i].Name)
           /\ d = ScenarioScan =>
                 /\ r[1].Name = <<"C", "a", "m", "e", "r", "a", " ", "1">>
                 /\ r[1].DeviceUID = <<"c", "a", "m", "-", "1", ":", "/", "d", "e", "v",
                                       "/", "v", "i", "d", "e", "o", "0">>
                 /\ r[1].StreamPath = <<"c", "a", "m", "-", "1", "-", "c", "a", "m", "e",
                                        "r", "a", "-", "1", "-", "0">>

C14_Witness ==
    /\ naming.done
    /\ naming.devices = ScenarioScan
    /\ Len(naming.cameras) = 1
    /\ naming.cameras[1].Name = <<"C", "a", "m", "e", "r", "a", " ", "1">>

(* -------------------------------- C22 --------------------------------- *)

\* C22: every deviceUID with a registered Publisher has a Camera Table entry
\* and that entry is enabled; and the Publishers a reconciliation cycle
\* retires are those of vanished devices, never that of a disabled device
\* in the scan.
C22_RegisteredImpliesEnabled ==
    /\ [](\A u \in Registered : u \in DOMAIN cameras /\ cameras[u].Enabled)
    /\ [][(last'.op = "refresh" /\ last'.resp = "done") =>
             last'.retired \cap DOMAIN cameras' = {}]_vars

C22_Witness ==
    /\ last.op = "refresh" /\ last.resp = "done"
    /\ last.retired = {}
    /\ \E u \in DOMAIN cameras : ~cameras[u].Enabled /\ publishers[u] = NoProc
    /\ \E u \in Registered : procs[publishers[u]].alive

(* -------------------------------- C21 --------------------------------- *)

\* C21: the enabled and publishing values of the cameras in one List
\* response are those the Camera Table held at one instant of the request.
C21_ListIsSnapshot ==
    [][(list.pc = "encoding" /\ list'.pc = "idle" /\ phase' = "run") =>
          \E t \in list.seen :
              /\ DOMAIN list.resp \subseteq DOMAIN t
              /\ \A u \in DOMAIN list.resp : t[u] = list.resp[u]]_vars

====
